---- MODULE Spec2Model ----
(***************************************************************************)
(* Census ETL pipeline (tools/etl): the Boundary Loader                    *)
(* (load_tiger_zipcode_boundaries.py), the Statistical Data Loader         *)
(* (load_acs_zipcode_data.py) and the two exporters                        *)
(* (convert_geometry_to_wkt.py, export_to_json.py), run one process at a   *)
(* time against the files of DATA_RAW and the container OUTPUT_GPKG.       *)
(*                                                                         *)
(* Modelling conventions                                                   *)
(*   - a string-valued identifier is the sequence of its digits, so that   *)
(*     str.zfill is computed and not assumed;                              *)
(*   - a table is [cols, crs, rows]: cols the column names in order, rows  *)
(*     the set of its rows; a row is [zip, geom, wkt, vals], zip the value *)
(*     of its identifier column, vals the values of its other attribute    *)
(*     columns. Row order is not modelled, and the inputs give every table *)
(*     at most one row per identifier and geometry;                        *)
(*   - the network and the published files are the environment: every      *)
(*     request draws its outcome from the outcomes the code distinguishes. *)
(***************************************************************************)
EXTENDS Integers, Sequences, FiniteSets, TLC

\* ---------------------------------------------------------------- bounds
\* script runs in one behaviour
MaxRuns == 3
\* longest variable list handed to fetch_acs_data
MaxVars == 3
\* largest max_vars_per_request handed to fetch_acs_data
MaxChunk == 3
\* max_vars_per_request as main() leaves it (its default), scaled to the catalog
DefaultChunk == 2

\* ------------------------------------------------------ program constants
TIGER_YEAR == 2025
FallbackFloor == 2020
max_retries == 3
ZipWidth == 5

Years == {TIGER_YEAR, TIGER_YEAR - 1}

\* ------------------------------------------------------------ identifiers
Z64101 == <<6, 4, 1, 0, 1>>
Z64102 == <<6, 4, 1, 0, 2>>
Z64999 == <<6, 4, 9, 9, 9>>
Z90210 == <<9, 0, 2, 1, 0>>
Z1234 == <<1, 2, 3, 4>>

Range(s) == {s[k] : k \in 1..Len(s)}

Min(a, b) == IF a < b THEN a ELSE b

\* str.zfill(5): left-pad with "0" up to width 5, longer strings unchanged
zfill(s) ==
  IF Len(s) >= ZipWidth THEN s
  ELSE [k \in 1..(ZipWidth - Len(s)) |-> 0] \o s

\* ------------------------------------------------------------------ tables
EmptyVals == [c \in {} |-> "NaN"]
NoWkt == <<>>

\* geometry of a published polygon of one vintage
Polygon(p, y) == [poly |-> p, vintage |-> y]

\* a row of a shapefile: identifier, geometry, and whether its bounding box
\* intersects the metro rectangle (kc_bounds)
ShpRow(z, p, y, inside) == [zip |-> z, geom |-> Polygon(p, y), inBox |-> inside]

\* The shapefile inside the archive tl_{y}_us_zcta520.zip, in the column
\* naming of the published vintage `variant` (environment input).
TigerVariants == {"std", "v2010", "generic", "unnamed"}

TigerShapefile(variant, y) ==
  CASE variant = "std" ->
         [cols |-> <<"ZCTA5CE20", "GEOID20", "ALAND20", "geometry">>,
          crs |-> "EPSG:4269",
          rows |-> {ShpRow(Z64101, "p1", y, TRUE), ShpRow(Z64102, "p2", y, TRUE),
                    ShpRow(Z1234, "p3", y, TRUE), ShpRow(Z90210, "p4", y, FALSE)}]
    [] variant = "v2010" ->
         [cols |-> <<"ZCTA5CE10", "GEOID10", "geometry">>,
          crs |-> "EPSG:4326",
          rows |-> {ShpRow(Z90210, "p4", y, FALSE)}]
    [] variant = "generic" ->
         [cols |-> <<"NAME", "ZIP_AREA", "geometry">>,
          crs |-> "none",
          rows |-> {ShpRow(Z64101, "p1", y, TRUE), ShpRow(Z90210, "p4", y, FALSE)}]
    [] OTHER ->
         [cols |-> <<"GEOID20", "geometry">>,
          crs |-> "EPSG:4269",
          rows |-> {ShpRow(Z64101, "p1", y, TRUE)}]

\* 'ZCTA' in col.upper() or 'ZIP' in col.upper(), over the column names used here
ContainsZctaOrZip(c) ==
  c \in {"ZCTA5CE20", "ZCTA5CE10", "ZCTA5", "ZIPCODE", "ZIP_AREA"}

\* first element of a sequence satisfying a membership test, <<>> if none
RECURSIVE FirstIn(_, _)
FirstIn(s, S) ==
  IF s = <<>> THEN <<>>
  ELSE IF Head(s) \in S THEN <<Head(s)>> ELSE FirstIn(Tail(s), S)

SelectCols(s, S) == SelectSeq(s, LAMBDA c : c \in S)

\* The column of the shapefile that becomes ZIPCODE (<<>>: none, the run
\* raises "Could not find ZIPCODE column in TIGER file").
ZipcodeSource(cols) ==
  IF "ZCTA5CE20" \in Range(cols) THEN <<"ZCTA5CE20">>
  ELSE IF "ZCTA5CE10" \in Range(cols) THEN <<"ZCTA5CE10">>
  ELSE IF "ZCTA5" \in Range(cols) THEN <<"ZCTA5">>
  ELSE IF "ZIPCODE" \in Range(cols) THEN <<"ZIPCODE">>
  ELSE FirstIn(cols, {c \in Range(cols) : ContainsZctaOrZip(c)})

MetadataCols == <<"GEOID20", "GEOID10", "AFFGEOID20", "AFFGEOID10">>

\* gdf.cx[minx:maxx, miny:maxy]
BoundingBoxFilter(rows) == {r \in rows : r.inBox}

\* the identifier the Boundary Loader stores for a shapefile row: the source
\* value under its new name (rename only, no padding)
BoundaryZip(z) == z

\* The layer the Boundary Loader writes from a loaded shapefile
\* (filter, CRS, rename, column selection).
BoundaryLayer(shp) ==
  [cols |-> <<"ZIPCODE", "geometry">> \o SelectCols(MetadataCols, Range(shp.cols)),
   crs |-> "EPSG:4326",
   rows |-> {[zip |-> BoundaryZip(r.zip), geom |-> r.geom, wkt |-> NoWkt,
              vals |-> EmptyVals] : r \in BoundingBoxFilter(shp.rows)}]

LayerNames == {"zipcodes", "acs_data", "acs_data_table"}
NoLayers == [l \in {} |-> EmptyVals]

\* gdf.to_file(OUTPUT_GPKG, layer=...) adding its rows to those of an
\* existing layer of the same name
to_file_append(g, layer, table) ==
  [l \in (DOMAIN g) \cup {layer} |->
     IF l = layer
     THEN IF layer \in DOMAIN g THEN [table EXCEPT !.rows = @ \cup g[layer].rows]
          ELSE table
     ELSE g[l]]

\* gdf.to_file(OUTPUT_GPKG, layer=..., driver='GPKG', if_exists='replace')
to_file(g, layer, table) ==
  [l \in (DOMAIN g) \cup {layer} |-> IF l = layer THEN table ELSE g[l]]

\* OUTPUT_GPKG.exists(): the container file is created by the first write
GpkgExists(g) == DOMAIN g # {}

\* --------------------------------------------------- statistics (DataFrames)
\* A DataFrame is [cols, rows]; a row is [zip, vals]: zip is the ZCTA the row
\* describes (the value of its identifier column when it has one, and its
\* position otherwise: every response of a run lists the same ZCTAs in the
\* same order), vals the values of its other columns.

\* the variable codes of ACS_CATEGORIES (the first few, in catalog order)
VarCatalog ==
  <<"B19013_001E", "B01001_001E", "B25001_001E", "B15003_001E", "B23025_001E">>

IdCandidates == <<"zip code tabulation area", "ZCTA5", "ZIPCODE">>
IdNames == Range(IdCandidates)

\* col.lower() in ['state', 'county', 'tract', 'block group', 'name']
IsGeographyColumn(c) == c \in {"state", "county", "tract", "block group", "NAME", "name"}

\* col != 'ZIPCODE' and col.startswith('B') and '_' in col
IsVariableColumn(c) == c \in Range(VarCatalog)

\* name + '_dup', the suffix df.merge gives a right-hand column whose name
\* the left-hand table already has
DupPairs ==
  {<<"state", "state_dup">>, <<"NAME", "NAME_dup">>,
   <<"B19013_001E", "B19013_001E_dup">>, <<"B01001_001E", "B01001_001E_dup">>,
   <<"B25001_001E", "B25001_001E_dup">>, <<"B15003_001E", "B15003_001E_dup">>,
   <<"B23025_001E", "B23025_001E_dup">>}
DupName(c) == (CHOOSE q \in DupPairs : q[1] = c)[2]
EndsWithDup(c) == \E q \in DupPairs : q[2] = c

ValueCols(t) == Range(t.cols) \ IdNames

\* what the API holds for a ZCTA and a variable: a numeric string, or null
ApiValue(z, v) == IF z = Z64999 /\ v = VarCatalog[2] THEN "None" ELSE "1200"

\* pd.to_numeric(value, errors='coerce')
to_numeric(x) == IF x = "1200" THEN "1200.0" ELSE "NaN"

\* the geography columns the API appends to the header (environment)
GeoHeaders ==
  {<<"zip code tabulation area">>, <<"state", "zip code tabulation area">>,
   <<"ZCTA5">>, <<"state">>}

\* the ZCTAs the API reports on (environment)
ZctaUniverses == {{Z64101, Z64999}, {Z64101, Z64102, Z1234}}

\* pd.DataFrame(data[1:], columns=data[0]) of a successful response to the
\* request build_census_api_url(chunk) describes
ChunkFrame(chunk, geo, zctas) ==
  [cols |-> chunk \o geo,
   rows |-> {[zip |-> z,
              vals |-> [c \in Range(chunk) \cup (Range(geo) \ IdNames) |->
                          IF c \in Range(chunk) THEN ApiValue(z, c) ELSE "29"]]
             : z \in zctas}]

\* variables[i:i + max_vars_per_request] cut one short at the end
Chunk_short(variables, i, c) ==
  SubSeq(variables, i + 1, Min(i + c, Len(variables) - 1))

\* variables[i:i + max_vars_per_request] (i counted from 0)
Chunk(variables, i, c) == SubSeq(variables, i + 1, Min(i + c, Len(variables)))

\* the column a '_dup' name was made from (a name without suffix is its own)
Unsuffixed(c) == IF EndsWithDup(c) THEN (CHOOSE q \in DupPairs : q[2] = c)[1] ELSE c

\* df.loc[:, ~df.columns.str.endswith('_dup')] keeping every column
DropDup_keep(cols) == cols

\* df.loc[:, ~df.columns.str.endswith('_dup')]
DropDup(cols) == SelectSeq(cols, LAMBDA c : ~EndsWithDup(c))

\* df.merge(chunk, on=zipcode_col, how='outer', suffixes=('', '_dup')) and the
\* removal of the '_dup' columns; pd.concat([df, chunk], axis=1) when the two
\* share no identifier column
MergeChunk(df, chunk) ==
  LET key == FirstIn(IdCandidates, Range(df.cols) \cap Range(chunk.cols))
  IN IF key # <<>>
     THEN LET right == SelectSeq(chunk.cols, LAMBDA c : c # key[1])
              suffixed == [j \in 1..Len(right) |->
                             IF right[j] \in Range(df.cols) THEN DupName(right[j])
                             ELSE right[j]]
              cols == DropDup(df.cols \o suffixed)
              lcols == ValueCols(df)
              rcols == (Range(cols) \ IdNames) \ lcols
              both == {[zip |-> l[1].zip,
                        vals |-> [c \in lcols \cup rcols |->
                                    IF c \in lcols THEN l[1].vals[c]
                                    ELSE l[2].vals[Unsuffixed(c)]]]
                       : l \in {x \in df.rows \X chunk.rows : x[1].zip = x[2].zip}}
              leftOnly == {[zip |-> l.zip,
                            vals |-> [c \in lcols \cup rcols |->
                                        IF c \in lcols THEN l.vals[c] ELSE "NaN"]]
                           : l \in {x \in df.rows :
                                      \A r \in chunk.rows : r.zip # x.zip}}
              rightOnly == {[zip |-> r.zip,
                             vals |-> [c \in lcols \cup rcols |->
                                         IF c \in lcols THEN "NaN"
                                         ELSE r.vals[Unsuffixed(c)]]]
                            : r \in {x \in chunk.rows :
                                       \A l \in df.rows : l.zip # x.zip}}
          IN [cols |-> cols, rows |-> both \cup leftOnly \cup rightOnly]
     ELSE LET lcols == ValueCols(df)
              rcols == ValueCols(chunk)
          IN [cols |-> df.cols \o chunk.cols,
              rows |-> {[zip |-> l[1].zip,
                         vals |-> [c \in lcols \cup rcols |->
                                     IF c \in lcols THEN l[1].vals[c]
                                     ELSE l[2].vals[c]]]
                        : l \in {x \in df.rows \X chunk.rows : x[1].zip = x[2].zip}}]

\* "Merge all chunks": df = all_data[0]; for chunk in all_data[1:]: ...
RECURSIVE MergeOnto(_, _)
MergeOnto(df, rest) ==
  IF rest = <<>> THEN df ELSE MergeOnto(MergeChunk(df, Head(rest)), Tail(rest))

MergeAll(all_data) == MergeOnto(Head(all_data), Tail(all_data))

\* a missing identifier (NaN in the ZIPCODE column)
NaNZip == <<-1>>

\* clean_acs_data taking the first column when no candidate is found
CleanZipcodeCol_first(df) ==
  IF FirstIn(IdCandidates, Range(df.cols)) # <<>>
  THEN FirstIn(IdCandidates, Range(df.cols))
  ELSE <<df.cols[1]>>

\* the identifier column clean_acs_data renames to ZIPCODE, <<>> if none
\* ("Could not find zipcode column in ACS data")
CleanZipcodeCol(df) == FirstIn(IdCandidates, Range(df.cols))

\* clean_acs_data after the column is found: rename, drop the geography
\* columns, coerce the variable columns, drop rows without identifier, pad
clean_acs_data(df) ==
  LET zc == CleanZipcodeCol(df)[1]
      renamed == [j \in 1..Len(df.cols) |->
                    IF df.cols[j] = zc THEN "ZIPCODE" ELSE df.cols[j]]
      cols == SelectSeq(renamed, LAMBDA c : ~IsGeographyColumn(c))
      vcols == Range(cols) \ {"ZIPCODE"}
  IN [cols |-> cols,
      rows |-> {[zip |-> zfill(r.zip),
                 vals |-> [c \in vcols |->
                             IF IsVariableColumn(c) THEN to_numeric(r.vals[c])
                             ELSE r.vals[c]]]
                : r \in {x \in df.rows : x.zip # NaNZip}}]

\* load_existing_zipcodes(): <<>> for None, else <<the set of identifiers>>
load_existing_zipcodes(g) ==
  IF ~GpkgExists(g) THEN <<>>
  ELSE IF "zipcodes" \notin DOMAIN g THEN <<>>
  ELSE IF "ZIPCODE" \in Range(g["zipcodes"].cols)
  THEN <<{zfill(r.zip) : r \in g["zipcodes"].rows}>>
  ELSE <<>>

\* `if existing_zipcodes:`: None and the empty set are both false
Truthy(opt) == opt # <<>> /\ opt[1] # {}

\* acs_df[acs_df['ZIPCODE'].isin(existing_zipcodes)], when existing_zipcodes
\* is truthy
FilterToExisting(df, existing) ==
  IF Truthy(existing)
  THEN [df EXCEPT !.rows = {r \in @ : r.zip \in existing[1]}]
  ELSE df

AllNaN(cols) == [c \in cols |-> "NaN"]

\* gdf.merge(df, on='ZIPCODE', how='inner'): unmatched rows dropped
LeftJoin_inner(boundaries, df) ==
  [cols |-> boundaries.cols \o SelectSeq(df.cols, LAMBDA c : c # "ZIPCODE"),
   crs |-> boundaries.crs,
   rows |-> {[zip |-> x[1].zip, geom |-> x[1].geom, wkt |-> x[1].wkt,
              vals |-> x[2].vals]
             : x \in {y \in boundaries.rows \X df.rows : y[1].zip = y[2].zip}}]

\* gdf.merge(df, on='ZIPCODE', how='left')
LeftJoin(boundaries, df) ==
  LET vcols == Range(df.cols) \ {"ZIPCODE"}
      matched == {[zip |-> x[1].zip, geom |-> x[1].geom, wkt |-> x[1].wkt,
                   vals |-> x[2].vals]
                  : x \in {y \in boundaries.rows \X df.rows : y[1].zip = y[2].zip}}
      unmatched == {[zip |-> b.zip, geom |-> b.geom, wkt |-> b.wkt,
                     vals |-> AllNaN(vcols)]
                    : b \in {y \in boundaries.rows :
                               \A a \in df.rows : a.zip # y.zip}}
  IN [cols |-> boundaries.cols \o SelectSeq(df.cols, LAMBDA c : c # "ZIPCODE"),
      crs |-> boundaries.crs,
      rows |-> matched \cup unmatched]

\* t['ZIPCODE'] = t['ZIPCODE'].astype(str).str.zfill(5)
ZfillColumn(t) == [t EXCEPT !.rows = {[r EXCEPT !.zip = zfill(@)] : r \in @}]

\* merge_with_boundaries joining with how='inner'
merge_with_boundaries_inner(g, df) ==
  LeftJoin_inner(ZfillColumn(g["zipcodes"]), ZfillColumn(df))

\* merge_with_boundaries(acs_df) once the container and its zipcodes layer
\* are read: pad both sides, then left-join
merge_with_boundaries(g, df) ==
  LeftJoin(ZfillColumn(g["zipcodes"]), ZfillColumn(df))

\* acs_df with the dummy geometry Point(0, 0), as a layer
TableLayer(df) ==
  [cols |-> Append(df.cols, "geometry"),
   crs |-> "EPSG:4326",
   rows |-> {[zip |-> r.zip, geom |-> Polygon("POINT (0 0)", 0), wkt |-> NoWkt,
              vals |-> r.vals] : r \in df.rows}]

\* save_acs_data(acs_df, merged_gdf)
save_acs_data(g, df, merged) ==
  to_file(to_file(g, "acs_data", merged), "acs_data_table", TableLayer(df))

\* ------------------------------------------------------------------- state
VARIABLES
  tiger,       \* the published TIGER vintage (environment, fixed)
  zipFile,     \* DATA_RAW: year -> "absent" | "partial" | "complete"
  shpFile,     \* DATA_RAW/tiger_zcta: years whose shapefile is extracted
  gpkg,        \* OUTPUT_GPKG: layer name -> table, for the layers present
  jsonFile,    \* census_zipcode_data.json: <<>> or <<document>>
  pc,          \* "idle", or the request loop the running script is in
  runs,        \* scripts started so far
  exit,        \* the last finished script, its exit code and whether it did its job
  tg,          \* locals of the Boundary Loader run, while it is the last script started
  acs,         \* locals of the Statistical Data Loader run, while it is the last script started
  rerunLayers  \* zipcodes layers written by runs that found archive and shapefile on disk

vars == <<tiger, zipFile, shpFile, gpkg, jsonFile, pc, runs, exit, tg, acs, rerunLayers>>

Finished(script, code, ok, why) ==
  [script |-> script, code |-> code, ok |-> ok, error |-> why]

TgIdle ==
  [year |-> TIGER_YEAR, attempt |-> 0, requests |-> <<>>, results |-> <<>>,
   returns |-> <<>>, extracted |-> <<>>, preloaded |-> FALSE, zip_path |-> TIGER_YEAR]

AcsIdle ==
  [key |-> "", variables |-> <<>>, max_vars |-> 1, i |-> 0, all_data |-> <<>>,
   requests |-> <<>>, outcomes |-> <<>>, sleeps |-> <<>>, geo |-> <<>>,
   zctas |-> {}, existing |-> <<>>, fetched |-> <<>>, cleaned |-> <<>>,
   kept |-> <<>>, merged |-> <<>>, before |-> NoLayers, caller |-> "main",
   raised |-> FALSE]

Init ==
  /\ tiger \in TigerVariants
  /\ zipFile \in [Years -> {"absent", "complete"}]
  /\ zipFile[TIGER_YEAR - 1] = "absent"
  /\ shpFile \in {{}, {TIGER_YEAR}}
  /\ gpkg = NoLayers
  /\ jsonFile = <<>>
  /\ pc = "idle"
  /\ runs = 0
  /\ exit = Finished("none", 0, TRUE, "")
  /\ tg = TgIdle
  /\ acs = AcsIdle
  /\ rerunLayers = <<>>

\* --------------------------------------------------------- Boundary Loader
\* zip_path.exists()
ZipPathExists(zf, y) == zf[y] # "absent"

\* shp_path.exists() answering no whatever is on disk
ShpPathExists_never(sf) == FALSE

\* shp_path.exists(), shp_path = extract_dir / tl_{TIGER_YEAR}_us_zcta520.shp
ShpPathExists(sf) == TIGER_YEAR \in sf

\* extract_zipcode_boundaries from "Extract if not already extracted" to its
\* end, with zip_path the archive of year zy, zf the archives on disk and t
\* the locals so far: extraction, read, filter, rename, save; exit(1) on
\* any exception.
ProcessArchive(zy, zf, t) ==
  LET needExtract == ~ShpPathExists(shpFile)
      badZip == needExtract /\ zf[zy] = "partial"
      shp2 == IF needExtract /\ ~badZip THEN shpFile \cup {zy} ELSE shpFile
      readable == TIGER_YEAR \in shp2
      shp == TigerShapefile(tiger, TIGER_YEAR)
      named == ZipcodeSource(shp.cols) # <<>>
      ok == ~badZip /\ readable /\ named
      why == IF badZip THEN "BadZipFile"
             ELSE IF ~readable THEN "shapefile not found"
             ELSE IF ~named THEN "Could not find ZIPCODE column in TIGER file"
             ELSE ""
      t2 == [t EXCEPT !.zip_path = zy,
                      !.extracted = IF needExtract /\ ~badZip THEN Append(@, zy) ELSE @]
  IN /\ zipFile' = zf
     /\ shpFile' = shp2
     /\ tg' = t2
     /\ gpkg' = IF ok THEN to_file(gpkg, "zipcodes", BoundaryLayer(shp)) ELSE gpkg
     /\ rerunLayers' = IF ok /\ t.preloaded
                       THEN Append(rerunLayers,
                                   to_file(gpkg, "zipcodes", BoundaryLayer(shp))["zipcodes"])
                       ELSE rerunLayers
     /\ exit' = Finished("tiger", IF ok THEN 0 ELSE 1, ok, why)
     /\ pc' = "idle"

\* python load_tiger_zipcode_boundaries.py, up to the first download request
\* (or to its end when the archive is on disk)
TigerStart ==
  /\ pc = "idle"
  /\ runs < MaxRuns
  /\ runs' = runs + 1
  /\ LET t == [TgIdle EXCEPT !.preloaded =
                 zipFile[TIGER_YEAR] # "absent" /\ TIGER_YEAR \in shpFile]
     IN IF ZipPathExists(zipFile, TIGER_YEAR)
        THEN ProcessArchive(TIGER_YEAR, zipFile, t)
        ELSE /\ tg' = t
             /\ pc' = "tiger_download"
             /\ UNCHANGED <<zipFile, shpFile, gpkg, rerunLayers, exit>>
  /\ acs' = AcsIdle
  /\ UNCHANGED <<tiger, jsonFile>>

DownloadOutcomes == {"ok", "timeout", "error", "broken"}

\* the file at output_path after one attempt: written whole on success, left
\* truncated when the stream breaks after open(output_path, 'wb')
AfterAttempt(zf, y, o) ==
  IF o = "ok" THEN [zf EXCEPT ![y] = "complete"]
  ELSE IF o = "broken" THEN [zf EXCEPT ![y] = "partial"]
  ELSE zf

\* `if attempt < max_retries - 1`, with one pass too many
RetryAgain_extra(attempt) == attempt < max_retries

\* `if attempt < max_retries - 1`: a failed attempt is followed by another
RetryAgain(attempt) == attempt < max_retries - 1

\* what a call of download_tiger_file for year y returned, after n requests
Returned(t, y, value) ==
  [t EXCEPT !.returns = Append(@, [year |-> y, value |-> value, n |-> Len(t.requests)])]

\* one pass of the retry loop of download_tiger_file, and what
\* extract_zipcode_boundaries does when the call returns
DownloadAttempt(o) ==
  /\ pc = "tiger_download"
  /\ LET zf == AfterAttempt(zipFile, tg.year, o)
         t == [tg EXCEPT !.requests = Append(@, tg.year),
                         !.results = Append(@, o = "ok")]
     IN IF o = "ok"
        THEN ProcessArchive(tg.year, zf, Returned(t, tg.year, TRUE))
        ELSE IF RetryAgain(tg.attempt)
        THEN /\ tg' = [t EXCEPT !.attempt = @ + 1]
             /\ zipFile' = zf
             /\ UNCHANGED <<shpFile, gpkg, rerunLayers, exit, pc>>
        ELSE IF tg.year = TIGER_YEAR /\ TIGER_YEAR > FallbackFloor
        THEN /\ tg' = [Returned(t, tg.year, FALSE) EXCEPT !.year = TIGER_YEAR - 1,
                                                         !.attempt = 0]
             /\ zipFile' = zf
             /\ UNCHANGED <<shpFile, gpkg, rerunLayers, exit, pc>>
        ELSE /\ tg' = Returned(t, tg.year, FALSE)
             /\ zipFile' = zf
             /\ exit' = Finished("tiger", 1, FALSE, "Failed to download TIGER file")
             /\ pc' = "idle"
             /\ UNCHANGED <<shpFile, gpkg, rerunLayers>>
  /\ UNCHANGED <<tiger, jsonFile, runs, acs>>

\* -------------------------------------------------- Statistical Data Loader
ChunkOutcomes == {"ok", "empty", "error"}

\* fetch_acs_data from "if not all_data" on, and then, for a call made by
\* main(), the rest of main(): clean, filter, merge_with_boundaries,
\* save_acs_data; exit(1) on any exception. a: the locals after the loop.
AfterLoop(a) ==
  LET fetchedOk == a.all_data # <<>>
      df == MergeAll(a.all_data)
      found == fetchedOk /\ CleanZipcodeCol(df) # <<>>
      cleaned == clean_acs_data(df)
      kept == FilterToExisting(cleaned, a.existing)
      readable == GpkgExists(gpkg) /\ "zipcodes" \in DOMAIN gpkg
      ok == found /\ readable
      merged == merge_with_boundaries(gpkg, kept)
      why == IF ~fetchedOk THEN "No data was successfully fetched from Census API"
             ELSE IF ~found THEN "Could not find zipcode column in ACS data"
             ELSE IF ~GpkgExists(gpkg) THEN "Zipcode boundaries not found"
             ELSE IF ~readable THEN "layer not found"
             ELSE ""
  IN IF a.caller = "fetch"
     THEN /\ acs' = [a EXCEPT !.fetched = IF fetchedOk THEN <<df>> ELSE <<>>,
                              !.raised = ~fetchedOk]
          /\ exit' = Finished("fetch", IF fetchedOk THEN 0 ELSE 1, fetchedOk, why)
          /\ gpkg' = gpkg
          /\ pc' = "idle"
     ELSE /\ acs' = [a EXCEPT !.fetched = IF fetchedOk THEN <<df>> ELSE <<>>,
                              !.raised = ~fetchedOk,
                              !.cleaned = IF found THEN <<cleaned>> ELSE <<>>,
                              !.kept = IF found THEN <<kept>> ELSE <<>>,
                              !.merged = IF ok THEN <<merged>> ELSE <<>>]
          /\ gpkg' = IF ok THEN save_acs_data(gpkg, kept, merged) ELSE gpkg
          /\ exit' = Finished("acs", IF ok THEN 0 ELSE 1, ok, why)
          /\ pc' = "idle"

\* a call of fetch_acs_data(variables, max_vars_per_request) up to its first
\* request, by main() or on its own
BeginFetch(a) ==
  IF Len(a.variables) = 0
  THEN AfterLoop(a)
  ELSE /\ acs' = a
       /\ pc' = "acs_fetch"
       /\ UNCHANGED <<gpkg, exit>>

\* python load_acs_zipcode_data.py up to the first API request: the
\* credential check, get_all_acs_variables(), load_existing_zipcodes()
AcsStart(key, geo, zctas) ==
  /\ pc = "idle"
  /\ runs < MaxRuns
  /\ runs' = runs + 1
  /\ LET a == [AcsIdle EXCEPT !.caller = "main", !.key = key,
                 !.variables = SubSeq(VarCatalog, 1, MaxVars),
                 !.max_vars = DefaultChunk, !.geo = geo, !.zctas = zctas,
                 !.existing = load_existing_zipcodes(gpkg), !.before = gpkg]
     IN IF key = ""
        THEN /\ acs' = [a EXCEPT !.existing = <<>>]
             /\ exit' = Finished("acs", 1, FALSE, "CENSUS_API_KEY not found in environment")
             /\ UNCHANGED <<gpkg, pc>>
        ELSE BeginFetch(a)
  /\ tg' = TgIdle
  /\ UNCHANGED <<tiger, zipFile, shpFile, jsonFile, rerunLayers>>

\* fetch_acs_data(variables, max_vars_per_request) called on its own, for any
\* variable list and chunk size
FetchCall(n, c, geo, zctas) ==
  /\ pc = "idle"
  /\ runs < MaxRuns
  /\ runs' = runs + 1
  /\ BeginFetch([AcsIdle EXCEPT !.caller = "fetch", !.key = "key",
                   !.variables = SubSeq(VarCatalog, 1, n),
                   !.max_vars = c, !.geo = geo, !.zctas = zctas, !.before = gpkg])
  /\ tg' = TgIdle
  /\ UNCHANGED <<tiger, zipFile, shpFile, jsonFile, rerunLayers>>

\* all_data.append(df_chunk) reached for empty responses too (the
\* `len(data) < 2` test left out)
Appends_empty(o) == o # "error"

\* all_data.append(df_chunk) is reached: the request returned, and the
\* response holds a header and at least one data row
Appends(o) == o = "ok"

\* time.sleep(API_RATE_LIMIT_MS / 1000.0) is reached after a request: only on
\* the path that appended the chunk
SleepsAfter(o) == o = "ok"

\* one pass of the chunk loop of fetch_acs_data: the request for
\* variables[i:i + max_vars_per_request] and its outcome o; after the last
\* pass, the rest of the run
FetchChunk(o) ==
  /\ pc = "acs_fetch"
  /\ LET chunk == Chunk(acs.variables, acs.i, acs.max_vars)
         a == [acs EXCEPT
                 !.requests = Append(@, chunk),
                 !.outcomes = Append(@, o),
                 !.sleeps = Append(@, SleepsAfter(o)),
                 !.all_data = IF Appends(o)
                              THEN Append(@, ChunkFrame(chunk, acs.geo, acs.zctas))
                              ELSE @,
                 !.i = @ + acs.max_vars]
     IN IF a.i < Len(a.variables)
        THEN /\ acs' = a
             /\ UNCHANGED <<gpkg, exit, pc>>
        ELSE AfterLoop(a)
  /\ UNCHANGED <<tiger, zipFile, shpFile, jsonFile, runs, tg, rerunLayers>>

\* --------------------------------------------------------------- exporters
\* gdf['geometry_wkt'] = gdf.geometry.apply(lambda x: x.wkt if x else None)
WithWkt(table) ==
  [table EXCEPT !.cols = IF "geometry_wkt" \in Range(@) THEN @
                         ELSE Append(@, "geometry_wkt"),
                !.rows = {[r EXCEPT !.wkt = <<r.geom>>] : r \in @}]

\* python convert_geometry_to_wkt.py: the function returns False on a missing
\* container or layer, and the entry point ends normally either way
convert_geometry_to_wkt ==
  /\ pc = "idle"
  /\ runs < MaxRuns
  /\ runs' = runs + 1
  /\ IF GpkgExists(gpkg) /\ "zipcodes" \in DOMAIN gpkg
     THEN /\ gpkg' = to_file(gpkg, "zipcodes", WithWkt(gpkg["zipcodes"]))
          /\ exit' = Finished("wkt", 0, TRUE, "")
     ELSE /\ gpkg' = gpkg
          /\ exit' = Finished("wkt", 0, FALSE,
                              IF GpkgExists(gpkg) THEN "layer not found"
                              ELSE "GPKG file not found")
  /\ tg' = TgIdle
  /\ acs' = AcsIdle
  /\ UNCHANGED <<tiger, zipFile, shpFile, jsonFile, pc, rerunLayers>>

\* gpd.read_file(OUTPUT_GPKG, layer='acs_data') failing whenever the table
\* layer is there: the fallback taken first
ReadsAcsData_tableFirst(g) == "acs_data" \in DOMAIN g /\ "acs_data_table" \notin DOMAIN g

\* gpd.read_file(OUTPUT_GPKG, layer='acs_data') succeeds
ReadsAcsData(g) == "acs_data" \in DOMAIN g

\* pd.read_sql_query("SELECT * FROM acs_data_table", ...) as a DataFrame
TableFrame(layer) ==
  [cols |-> layer.cols, rows |-> {[zip |-> r.zip, vals |-> r.vals] : r \in layer.rows}]

\* acs_gdf.to_json(): one feature per row
to_json(source, table) ==
  [source |-> source, features |-> table.rows, count |-> Cardinality(table.rows)]

\* python export_to_json.py: the function returns False on a missing
\* container or layer, and the entry point ends normally either way
export_to_json ==
  /\ pc = "idle"
  /\ runs < MaxRuns
  /\ runs' = runs + 1
  /\ IF ~GpkgExists(gpkg)
     THEN /\ jsonFile' = jsonFile
          /\ exit' = Finished("json", 0, FALSE, "GPKG file not found")
     ELSE IF "zipcodes" \notin DOMAIN gpkg
     THEN /\ jsonFile' = jsonFile
          /\ exit' = Finished("json", 0, FALSE, "layer not found")
     ELSE IF ReadsAcsData(gpkg)
     THEN /\ jsonFile' = <<to_json("acs_data", gpkg["acs_data"])>>
          /\ exit' = Finished("json", 0, TRUE, "")
     ELSE IF "acs_data_table" \in DOMAIN gpkg
     THEN /\ jsonFile' = <<to_json("zipcodes+acs_data_table",
                                   LeftJoin(gpkg["zipcodes"],
                                            TableFrame(gpkg["acs_data_table"])))>>
          /\ exit' = Finished("json", 0, TRUE, "")
     ELSE /\ jsonFile' = jsonFile
          /\ exit' = Finished("json", 0, FALSE, "no such table: acs_data_table")
  /\ tg' = TgIdle
  /\ acs' = AcsIdle
  /\ UNCHANGED <<tiger, zipFile, shpFile, gpkg, pc, rerunLayers>>

Next ==
  \/ TigerStart
  \/ \E o \in DownloadOutcomes : DownloadAttempt(o)
  \/ \E key \in {"", "key"}, geo \in GeoHeaders, zctas \in ZctaUniverses :
       AcsStart(key, geo, zctas)
  \/ \E o \in ChunkOutcomes : FetchChunk(o)
  \/ convert_geometry_to_wkt
  \/ export_to_json

Spec == Init /\ [][Next]_vars

\* fetch_acs_data exercised on its own, for every variable list and chunk size
InitFetch ==
  /\ Init
  /\ tiger = "std"
  /\ zipFile = [y \in Years |-> "absent"]
  /\ shpFile = {}

NextFetch ==
  \/ \E n \in 0..MaxVars, c \in 1..MaxChunk, geo \in GeoHeaders, zctas \in ZctaUniverses :
       FetchCall(n, c, geo, zctas)
  \/ \E o \in ChunkOutcomes : FetchChunk(o)

SpecFetch == InitFetch /\ [][NextFetch]_vars

\* ================================================================== claims
CeilDiv(n, c) == (n + c - 1) \div c

RECURSIVE Flatten(_)
Flatten(ss) == IF ss = <<>> THEN <<>> ELSE Head(ss) \o Flatten(Tail(ss))

\* the chunk loop of the last call of fetch_acs_data has ended
LoopDone == pc = "idle" /\ exit.script \in {"fetch", "acs"} /\ acs.key # ""

\* C1: a call of fetch_acs_data on a list of N variables with chunk size C
\* issues, once its loop has ended, exactly ceil(N/C) requests; at any point
\* request k carries the k-th consecutive slice of at most C variables, and
\* the requests so far, laid end to end, are the list up to the loop index.
C1_Chunking ==
  LET N == Len(acs.variables)
      C == acs.max_vars
  IN /\ \A k \in 1..Len(acs.requests) :
          /\ Len(acs.requests[k]) \in 1..C
          /\ acs.requests[k] =
               SubSeq(acs.variables, (k - 1) * C + 1, Min(k * C, N))
     /\ Flatten(acs.requests) = SubSeq(acs.variables, 1, Min(acs.i, N))
     /\ LoopDone => /\ Len(acs.requests) = CeilDiv(N, C)
                    /\ Flatten(acs.requests) = acs.variables

\* C1 witness: a finished call whose list does not divide evenly, so the last
\* of several requests is shorter than the chunk size
C1_Witness ==
  /\ LoopDone
  /\ exit.script = "fetch"
  /\ Len(acs.requests) >= 2
  /\ Len(acs.requests[Len(acs.requests)]) < acs.max_vars

OkChunks == {k \in 1..Len(acs.outcomes) : acs.outcomes[k] = "ok"}

\* C2: whatever the outcomes of the chunks, every chunk is requested; the
\* call raises exactly when no chunk succeeded, and otherwise the variable
\* columns of the returned table are the variables of the chunks that
\* succeeded.
C2_ChunkFailurePolicy ==
  LoopDone =>
    /\ Len(acs.outcomes) = CeilDiv(Len(acs.variables), acs.max_vars)
    /\ Len(acs.requests) = Len(acs.outcomes)
    /\ acs.raised <=> OkChunks = {}
    /\ acs.raised <=> acs.fetched = <<>>
    /\ ~acs.raised =>
         {c \in Range(acs.fetched[1].cols) : IsVariableColumn(c)}
           = UNION {Range(acs.requests[k]) : k \in OkChunks}

\* C2 witness: a call that returned a table although a chunk failed before a
\* later chunk succeeded
C2_Witness ==
  /\ LoopDone
  /\ exit.script = "fetch"
  /\ ~acs.raised
  /\ \E k, j \in 1..Len(acs.outcomes) :
        k < j /\ acs.outcomes[k] # "ok" /\ acs.outcomes[j] = "ok"

\* the last script was the Boundary Loader and it has ended
TigerDone == pc = "idle" /\ exit.script = "tiger"

\* C3: when the configured year's archive is not on disk and its download
\* fails after all retries, the prior year's archive is requested next, and
\* only then; when that download succeeds the run goes on with the prior
\* year's archive: it is extracted, its shapefile is loaded, the zipcodes
\* layer is replaced with the filtered result and the run ends in success.
C3_FallbackYearLoads ==
  (/\ TigerDone
   /\ tg.zip_path = TIGER_YEAR - 1
   /\ ZipcodeSource(TigerShapefile(tiger, TIGER_YEAR - 1).cols) # <<>>)
  => /\ SubSeq(tg.requests, 1, max_retries) = [k \in 1..max_retries |-> TIGER_YEAR]
     /\ \A k \in (max_retries + 1)..Len(tg.requests) : tg.requests[k] = TIGER_YEAR - 1
     /\ (TIGER_YEAR - 1) \in Range(tg.extracted)
     /\ exit.code = 0
     /\ "zipcodes" \in DOMAIN gpkg
     /\ gpkg["zipcodes"] = BoundaryLayer(TigerShapefile(tiger, TIGER_YEAR - 1))

\* C4: a Boundary Loader run that finds the configured year's archive and
\* its shapefile on disk makes no download request and extracts nothing, and
\* every such run leaves the zipcodes layer with the content the first one
\* left.
C4_RerunIdempotent ==
  /\ (TigerDone /\ tg.preloaded) => tg.requests = <<>> /\ tg.extracted = <<>>
  /\ \A k \in 1..Len(rerunLayers) : rerunLayers[k] = rerunLayers[1]
  /\ (TigerDone /\ tg.preloaded /\ exit.ok) =>
       /\ rerunLayers # <<>>
       /\ gpkg["zipcodes"] = rerunLayers[1]

\* C4 witness: a second successful run on files already on disk, writing a
\* layer that has rows
C4_Witness ==
  /\ TigerDone
  /\ tg.preloaded
  /\ exit.ok
  /\ Len(rerunLayers) >= 2
  /\ gpkg["zipcodes"].rows # {}

\* the last script was the Statistical Data Loader and it has ended
AcsDone == pc = "idle" /\ exit.script = "acs"

Digits == 0..9
IsCanonical(z) == Len(z) = ZipWidth /\ \A k \in 1..Len(z) : z[k] \in Digits

\* the identifiers of the boundary layer a run found, in canonical form
BoundaryIds(g) == {zfill(r.zip) : r \in g["zipcodes"].rows}

\* C5: whenever the zipcodes layer exists when the loader starts, with any
\* number of rows, the rows kept after the filter step, and written to
\* acs_data_table, are exactly the cleaned rows whose identifier is in the
\* boundary identifier set.
C5_FilterByBoundary ==
  (AcsDone /\ "zipcodes" \in DOMAIN acs.before /\ acs.kept # <<>>)
  => /\ acs.kept[1].rows =
          {r \in acs.cleaned[1].rows : r.zip \in BoundaryIds(acs.before)}
     /\ exit.ok =>
          {r.zip : r \in gpkg["acs_data_table"].rows}
            = {r.zip : r \in acs.cleaned[1].rows} \cap BoundaryIds(acs.before)

\* C6: merge_with_boundaries keeps every boundary row: given one statistical
\* row per identifier, the merged result has exactly one record per boundary
\* row; a boundary row without statistical match keeps its geometry and has a
\* missing value for every variable, a matched one carries the statistics of
\* its identifier, and no record appears for an identifier absent from the
\* boundary set. The merged result is what acs_data holds.
C6_LeftJoinKeepsBoundaries ==
  (/\ AcsDone
   /\ exit.ok
   /\ \A a, b \in acs.kept[1].rows : a.zip = b.zip => a = b)
  => LET B == acs.before["zipcodes"].rows
         K == acs.kept[1].rows
         M == acs.merged[1].rows
         V == Range(acs.kept[1].cols) \ {"ZIPCODE"}
     IN /\ gpkg["acs_data"] = acs.merged[1]
        /\ Cardinality(M) = Cardinality(B)
        /\ \A b \in B :
             \E m \in M :
               /\ m.geom = b.geom
               /\ m.zip = zfill(b.zip)
               /\ \A n \in M : n.geom = b.geom => n = m
               /\ IF \E a \in K : a.zip = zfill(b.zip)
                  THEN \E a \in K : a.zip = zfill(b.zip) /\ m.vals = a.vals
                  ELSE DOMAIN m.vals = V /\ \A c \in V : m.vals[c] = "NaN"
        /\ \A m \in M : \E b \in B : m.geom = b.geom /\ m.zip = zfill(b.zip)

\* C6 witness: a successful run whose boundary layer has a row with
\* statistics and a row without
C6_Witness ==
  /\ AcsDone
  /\ exit.ok
  /\ \E m \in acs.merged[1].rows : \E a \in acs.kept[1].rows : a.zip = m.zip
  /\ \E m \in acs.merged[1].rows : \A a \in acs.kept[1].rows : a.zip # m.zip
  /\ Range(acs.kept[1].cols) \ {"ZIPCODE"} # {}

\* C7: every identifier in the layers the pipeline writes (zipcodes,
\* acs_data, acs_data_table) is a 5-character, zero-padded numeric string.
C7_CanonicalIdentifiers ==
  \A l \in DOMAIN gpkg : \A r \in gpkg[l].rows : IsCanonical(r.zip)

\* the fatal conditions of a Statistical Data Loader run, read off its inputs
EmptyCredential == acs.key = ""
ContainerAbsent == ~GpkgExists(acs.before)
NoChunkFetched == \A k \in 1..Len(acs.outcomes) : acs.outcomes[k] # "ok"
NoIdentifierColumn == Range(acs.geo) \cap IdNames = {}

\* C8: a Statistical Data Loader run that meets a fatal condition (empty
\* credential, container absent, no identifier column in the fetched data,
\* no chunk fetched) aborts with exit code 1 and leaves the container, so
\* acs_data and acs_data_table, as it found it; with an empty credential no
\* API request is issued. A run that aborts for any reason writes nothing.
C8_FatalWritesNothing ==
  AcsDone =>
    /\ (EmptyCredential \/ ContainerAbsent \/ NoChunkFetched \/ NoIdentifierColumn)
         => exit.code = 1 /\ ~exit.ok
    /\ exit.code # 0 => gpkg = acs.before
    /\ EmptyCredential => acs.requests = <<>>

\* C8 witness: an aborted run over a container that already held the two
\* layers of an earlier run, after all its chunk requests were made
C8_Witness ==
  /\ AcsDone
  /\ exit.code = 1
  /\ NoIdentifierColumn
  /\ ~NoChunkFetched
  /\ {"acs_data", "acs_data_table"} \subseteq DOMAIN gpkg

\* C9: every script exits with code 0 only when it succeeded.
C9_ExitCodeTellsFailure ==
  pc = "idle" => (exit.code = 0 => exit.ok)

JsonDone == pc = "idle" /\ exit.script = "json"

ShareIdColumn ==
  \E id \in IdNames : \A k \in 1..Len(acs.all_data) : id \in Range(acs.all_data[k].cols)

\* the first chunk table that has column c
EarliestWith(c) ==
  acs.all_data[CHOOSE k \in 1..Len(acs.all_data) :
                 /\ c \in Range(acs.all_data[k].cols)
                 /\ \A j \in 1..(k - 1) : c \notin Range(acs.all_data[j].cols)]

\* C11: when two or more successful chunk tables share an identifier column,
\* the table fetch_acs_data returns has no column with the '_dup' suffix and
\* no column name twice; its columns are those of the chunks, and a column
\* present in several chunks holds the values of the earliest chunk that has
\* it.
C11_NoDuplicateColumns ==
  (LoopDone /\ ~acs.raised /\ Len(acs.all_data) >= 2 /\ ShareIdColumn)
  => LET t == acs.fetched[1]
     IN /\ \A c \in Range(t.cols) : c \notin {q[2] : q \in DupPairs}
        /\ \A j, k \in 1..Len(t.cols) : t.cols[j] = t.cols[k] => j = k
        /\ Range(t.cols) = UNION {Range(acs.all_data[k].cols) : k \in 1..Len(acs.all_data)}
        /\ \A r \in t.rows : \A c \in DOMAIN r.vals :
             \A e \in EarliestWith(c).rows : e.zip = r.zip => r.vals[c] = e.vals[c]

\* C11 witness: a returned table merged from chunks that share, besides the
\* identifier column, the column "state"
C11_Witness ==
  /\ LoopDone
  /\ exit.script = "fetch"
  /\ ~acs.raised
  /\ Len(acs.all_data) >= 2
  /\ ShareIdColumn
  /\ \A k \in 1..Len(acs.all_data) : "state" \in Range(acs.all_data[k].cols)
  /\ acs.fetched[1].rows # {}

\* the requests of this run for year y, as positions in tg.requests
RequestsFor(y) == {k \in 1..Len(tg.requests) : tg.requests[k] = y}

\* C12: download_tiger_file terminates with at most max_retries requests for
\* its URL: inside the loop the attempt counter stays below max_retries and
\* counts the requests made; no request follows a successful one; the call
\* returns True at its first successful attempt and False only after
\* max_retries failed attempts; a Boundary Loader run makes at most
\* 2 * max_retries requests, those for the prior year after those for the
\* configured year.
C12_BoundedDownload ==
  /\ Len(tg.results) = Len(tg.requests)
  /\ Len(tg.requests) <= 2 * max_retries
  /\ \A y \in Years : Cardinality(RequestsFor(y)) <= max_retries
  /\ \A j \in RequestsFor(TIGER_YEAR - 1), k \in RequestsFor(TIGER_YEAR) : k < j
  /\ \A k \in 1..Len(tg.results) : tg.results[k] => k = Len(tg.results)
  /\ pc = "tiger_download"
       => /\ tg.attempt < max_retries
          /\ Cardinality(RequestsFor(tg.year)) = tg.attempt
  /\ \A i \in 1..Len(tg.returns) :
       LET r == tg.returns[i]
           mine == {k \in RequestsFor(r.year) : k <= r.n}
       IN /\ r.n \in mine
          /\ r.value => /\ tg.results[r.n]
                        /\ r.n = Len(tg.requests)
                        /\ \A k \in mine \ {r.n} : ~tg.results[k]
          /\ ~r.value => /\ Cardinality(mine) = max_retries
                         /\ \A k \in mine : ~tg.results[k]

\* C12 witness: a finished run in which the call for the configured year
\* returned False and the call for the prior year returned True at its last
\* allowed attempt
C12_Witness ==
  /\ TigerDone
  /\ Len(tg.requests) = 2 * max_retries
  /\ Len(tg.returns) = 2
  /\ ~tg.returns[1].value
  /\ tg.returns[2].value

\* C13: between two consecutive chunk requests of fetch_acs_data the loader
\* has paused for the rate-limit delay, whatever the outcome of the earlier
\* request: every request that is followed by another one was followed by a
\* sleep. The code does not keep this: the sleep stands on the success path
\* only, and both failure paths `continue` past it.
C13_PauseBetweenRequests ==
  \A k \in 1..(Len(acs.requests) - 1) : acs.sleeps[k]

\* the layers a Statistical Data Loader run writes
AcsLayers == {"acs_data", "acs_data_table"}

\* C14: a Statistical Data Loader run leaves the zipcodes layer, and every
\* layer other than acs_data and acs_data_table, as it found it, and adds no
\* other layer; the container is untouched while chunks are fetched and by a
\* failed run; after a successful run acs_data is exactly the joined table
\* and acs_data_table exactly the attribute table of this run, whatever the
\* two layers held before.
C14_WritesOnlyAcsLayers ==
  /\ (pc = "acs_fetch" /\ acs.caller = "main") => gpkg = acs.before
  /\ AcsDone =>
       /\ DOMAIN gpkg \subseteq (DOMAIN acs.before) \cup AcsLayers
       /\ \A l \in (DOMAIN acs.before) \ AcsLayers :
            l \in DOMAIN gpkg /\ gpkg[l] = acs.before[l]
       /\ ~exit.ok => gpkg = acs.before
       /\ exit.ok => /\ "zipcodes" \in DOMAIN acs.before
                     /\ gpkg["zipcodes"] = acs.before["zipcodes"]
                     /\ gpkg["acs_data"] = acs.merged[1]
                     /\ gpkg["acs_data_table"] = TableLayer(acs.kept[1])

\* C14 witness: a successful run over a container whose acs_data and
\* acs_data_table layers, written by an earlier run, held rows that the new
\* layers do not hold
C14_Witness ==
  /\ AcsDone
  /\ exit.ok
  /\ AcsLayers \subseteq DOMAIN acs.before
  /\ \E r \in acs.before["acs_data_table"].rows : r \notin gpkg["acs_data_table"].rows
  /\ \E r \in acs.before["acs_data"].rows : r \notin gpkg["acs_data"].rows
  /\ gpkg["acs_data_table"].rows # {}

====
